---- MODULE Spec2Model ----
(***************************************************************************)
(* A model of mk_atlas.go: the sprite trimmer (ImageMaxAlpha, TrimImage),  *)
(* the packing tree (node.FindInsertCandidates, node.Insert) and the       *)
(* packer (Atlas.PackImages) with its candidate-producing goroutine.       *)
(***************************************************************************)
EXTENDS Integers, Sequences, FiniteSets, TLC

(***************************************************************************)
(* Bounds of the model.                                                    *)
(***************************************************************************)
\* most sprites in a.Images (general inputs)
MaxSprites == 2
\* largest trimmed width/height of a sprite (general inputs)
MaxDim == 2
\* largest canvas width/height (general inputs)
MaxCanvas == 5
\* largest canvas width/height of the inputs made of two large sprites
BigCanvas == 7
\* capacity of the candidates channel.  The program makes it with capacity
\* 1000 (mk_atlas.go:209); the model scales it down so that a search can
\* yield more candidates than the buffer holds and the producer blocks.
ChanCap == 1
\* largest width/height of an image handed to TrimImage
MaxImg == 3

VARIABLES
    atlasSize,      \* PackImages' argument: the canvas size, a point
    Images,         \* a.Images: sequence of [Path, OrgBounds, Bounds, AtlasPos]
    images,         \* the working list: sequence of indices into a.Images
    nodes,          \* the tree: sequence of nodes, the root is nodes[1]
    pc,             \* position of PackImages
    i,              \* loop variable of the candidate loop (0-based)
    bestImage,      \* index into images (0-based), -1 when none
    bestCandidate,  \* [Candidate, Score]
    candidates,     \* buffer of the channel
    closed,         \* whether the channel has been closed
    g,              \* position of the goroutine of the current iteration
    gSize,          \* the size the goroutine searches for
    gStack,         \* nodes the goroutine's depth-first search has yet to visit
    gSent,          \* history: the candidates the goroutine has sent so far
    result,         \* "none", "ok" (nil), "fail" (the error), "panic"
    roundNodes,     \* history: the tree at the start of the current round
    commits,        \* history: the placements made, in order
    src,            \* TrimImage's argument: an RGBA image [Pix, Off, Stride, Rect]
    trim,           \* TrimImage's rectangle
    dst,            \* TrimImage's result
    tpc             \* position of TrimImage

packVars == <<atlasSize, Images, images, nodes, pc, i, bestImage, bestCandidate,
              candidates, closed, g, gSize, gStack, gSent, result, roundNodes, commits>>

trimVars == <<src, trim, dst, tpc>>

vars == <<packVars, trimVars>>

(***************************************************************************)
(* image.Point and image.Rectangle                                         *)
(***************************************************************************)
Pt(x, y) == [X |-> x, Y |-> y]

PtAdd(p, q) == Pt(p.X + q.X, p.Y + q.Y)

PtSub(p, q) == Pt(p.X - q.X, p.Y - q.Y)

\* image.Rect: the rectangle is canonicalised, Min <= Max on both axes
Rect(x0, y0, x1, y1) ==
    [Min |-> Pt(IF x0 > x1 THEN x1 ELSE x0, IF y0 > y1 THEN y1 ELSE y0),
     Max |-> Pt(IF x0 > x1 THEN x0 ELSE x1, IF y0 > y1 THEN y0 ELSE y1)]

Dx(r) == r.Max.X - r.Min.X

Dy(r) == r.Max.Y - r.Min.Y

RectSize(r) == Pt(Dx(r), Dy(r))

(***************************************************************************)
(* image.RGBA: Pix is a slice of an underlying array; the image holds the  *)
(* array (Pix), where its slice starts in it (Off), Stride and Rect.       *)
(***************************************************************************)
EmptyRect == [Min |-> Pt(0, 0), Max |-> Pt(0, 0)]

NoImage == [Pix |-> <<>>, Off |-> 0, Stride |-> 0, Rect |-> EmptyRect]

IsEmpty(r) == r.Min.X >= r.Max.X \/ r.Min.Y >= r.Max.Y

\* Rectangle.Intersect
RectIntersect(r, t) ==
    LET u == [Min |-> Pt(IF r.Min.X < t.Min.X THEN t.Min.X ELSE r.Min.X,
                         IF r.Min.Y < t.Min.Y THEN t.Min.Y ELSE r.Min.Y),
              Max |-> Pt(IF r.Max.X > t.Max.X THEN t.Max.X ELSE r.Max.X,
                         IF r.Max.Y > t.Max.Y THEN t.Max.Y ELSE r.Max.Y)]
    IN  IF IsEmpty(u) THEN EmptyRect ELSE u

\* (*RGBA).SubImage: the same array, the slice starting at r.Min's pixel
SubImage(p, r) ==
    LET u == RectIntersect(r, p.Rect)
    IN  IF IsEmpty(u)
        THEN NoImage
        ELSE [Pix |-> p.Pix,
              Off |-> p.Off + (u.Min.Y - p.Rect.Min.Y) * p.Stride
                            + (u.Min.X - p.Rect.Min.X) * 4,
              Stride |-> p.Stride,
              Rect |-> u]

\* i.Pix[j], j 0-based in the image's slice
PixAt(img, j) == img.Pix[img.Off + j + 1]

(***************************************************************************)
(* ImageMaxAlpha                                                           *)
(***************************************************************************)
\* line 33: the index of the alpha byte of pixel (x, y), x and y relative
\* to the image's Min (mutant: the stride is taken from the image's own
\* width, not from the array it is a slice of)
AlphaIndexMutOwnStride(img, x, y) == (x * 4 + y * (4 * Dx(img.Rect))) + 3

AlphaIndex(img, x, y) == (x * 4 + y * img.Stride) + 3

SetMax(S) == IF S = {} THEN 0 ELSE CHOOSE m \in S : \A a \in S : a <= m

\* lines 23-44
ImageMaxAlpha(img) ==
    LET b == img.Rect
    IN  SetMax({PixAt(img, AlphaIndex(img, x, y)) :
                    x \in 0..(Dx(b) - 1), y \in 0..(Dy(b) - 1)})

(***************************************************************************)
(* TrimImage                                                               *)
(***************************************************************************)
\* the strips of lines 51, 54, 58 and 61
RightStrip(t) == Rect(t.Max.X - 1, t.Min.Y, t.Max.X, t.Max.Y)

LeftStrip(t) == Rect(t.Min.X, t.Min.Y, t.Min.X + 1, t.Max.Y)

BottomStrip(t) == Rect(t.Min.X, t.Max.Y - 1, t.Max.X, t.Max.Y)

TopStrip(t) == Rect(t.Min.X, t.Min.Y, t.Max.X, t.Min.Y + 1)

\* image.NewRGBA(r) with alpha bytes a (row by row) and colour bytes 0
NewRGBA(r, a) ==
    [Pix |-> [j \in 1..(4 * Dx(r) * Dy(r)) |-> IF j % 4 = 0 THEN a[j \div 4] ELSE 0],
     Off |-> 0,
     Stride |-> 4 * Dx(r),
     Rect |-> r]

\* the values of an alpha byte the model draws from
Alphas == {0, 255}

\* the Min corners of the images the model draws from
Origins == {Pt(0, 0), Pt(1, 2)}

(***************************************************************************)
(* type node, nodeCandidate                                                *)
(***************************************************************************)
\* 0 stands for the nil pointer
Nil == 0

NewNode(r) == [Left |-> Nil, Right |-> Nil, Rect |-> r, Used |-> FALSE]

NodeCandidate(n, score) == [Candidate |-> n, Score |-> score]

(***************************************************************************)
(* node.FindInsertCandidates                                               *)
(***************************************************************************)
\* the guard of line 150
\* (mutant: the height is not compared)
FitsMutNoHeight(size, r) == size.X <= Dx(r)

Fits(size, r) == size.X <= Dx(r) /\ size.Y <= Dy(r)

\* lines 156-161: the smaller of the two slacks
\* (mutant: the larger of the two)
ScoreMutMax(r, size) ==
    LET ds == PtSub(RectSize(r), size)
    IN  IF ds.X >= ds.Y THEN ds.X ELSE ds.Y

Score(r, size) ==
    LET ds == PtSub(RectSize(r), size)
    IN  IF ds.X >= ds.Y THEN ds.Y ELSE ds.X

\* The depth-first search from the nodes of `stack` (first node first) up to
\* its next send: [found, cand, stack], stack being what is left to visit.
RECURSIVE Advance(_, _, _)
Advance(ns, stack, size) ==
    IF stack = <<>>
    THEN [found |-> FALSE, cand |-> NodeCandidate(Nil, 0), stack |-> <<>>]
    ELSE LET n == Head(stack)
             nd == ns[n]
         IN  IF Fits(size, nd.Rect)
             THEN IF nd.Left # Nil
                  THEN Advance(ns, <<nd.Left, nd.Right>> \o Tail(stack), size)
                  ELSE IF ~nd.Used
                       THEN [found |-> TRUE,
                             cand |-> NodeCandidate(n, Score(nd.Rect, size)),
                             stack |-> Tail(stack)]
                       ELSE Advance(ns, Tail(stack), size)
             ELSE Advance(ns, Tail(stack), size)

(***************************************************************************)
(* node.Insert                                                             *)
(***************************************************************************)
\* lines 180-186: the rectangles of the two children, <<left, right>>
\* (mutant: the right child starts one unit early and overlaps the left)
SplitRectsMutOverlap(r, size, ds) ==
    IF ds.X >= ds.Y
    THEN <<Rect(r.Min.X, r.Min.Y, r.Min.X + size.X, r.Max.Y),
           Rect(r.Min.X + size.X - 1, r.Min.Y, r.Max.X, r.Max.Y)>>
    ELSE <<Rect(r.Min.X, r.Min.Y, r.Max.X, r.Min.Y + size.Y),
           Rect(r.Min.X, r.Min.Y + size.Y - 1, r.Max.X, r.Max.Y)>>

\* (mutant: equal slacks split horizontally instead of vertically)
SplitRectsMutStrict(r, size, ds) ==
    IF ds.X > ds.Y
    THEN <<Rect(r.Min.X, r.Min.Y, r.Min.X + size.X, r.Max.Y),
           Rect(r.Min.X + size.X, r.Min.Y, r.Max.X, r.Max.Y)>>
    ELSE <<Rect(r.Min.X, r.Min.Y, r.Max.X, r.Min.Y + size.Y),
           Rect(r.Min.X, r.Min.Y + size.Y, r.Max.X, r.Max.Y)>>

SplitRects(r, size, ds) ==
    IF ds.X >= ds.Y
    THEN <<Rect(r.Min.X, r.Min.Y, r.Min.X + size.X, r.Max.Y),
           Rect(r.Min.X + size.X, r.Min.Y, r.Max.X, r.Max.Y)>>
    ELSE <<Rect(r.Min.X, r.Min.Y, r.Max.X, r.Min.Y + size.Y),
           Rect(r.Min.X, r.Min.Y + size.Y, r.Max.X, r.Max.Y)>>

\* line 176 (mutant: the flag is left unset)
MarkUsedMutNoop(ns, n) == ns

MarkUsed(ns, n) == [ns EXCEPT ![n].Used = TRUE]

\* [panic, nodes, r]: whether Insert panicked, the tree after it, its result
RECURSIVE Insert(_, _, _)
Insert(ns, n, size) ==
    LET nd == ns[n]
        ds == PtSub(RectSize(nd.Rect), size)
    IN  IF nd.Used \/ ds.X < 0 \/ ds.Y < 0
        THEN [panic |-> TRUE, nodes |-> ns, r |-> nd.Rect]
        ELSE LET used == MarkUsed(ns, n)
             IN  IF ds.X = 0 /\ ds.Y = 0
                 THEN [panic |-> FALSE, nodes |-> used, r |-> nd.Rect]
                 ELSE LET rs == SplitRects(nd.Rect, size, ds)
                          l == Len(ns) + 1
                          split == [used EXCEPT ![n].Left = l, ![n].Right = l + 1]
                                       \o <<NewNode(rs[1]), NewNode(rs[2])>>
                      IN  Insert(split, l, size)

(***************************************************************************)
(* Atlas.PackImages                                                        *)
(***************************************************************************)
\* images[k].Image.Bounds().Size().Add(image.Pt(1, 1)), lines 211 and 232
\* (mutant: no padding is added)
PaddedSizeMutNoPad(img) == RectSize(img.Bounds)

PaddedSize(img) == PtAdd(RectSize(img.Bounds), Pt(1, 1))

\* line 200 (mutant: the root is not inset)
RootRectMutNoInset(size) == Rect(0, 0, size.X, size.Y)

RootRect(size) == Rect(1, 1, size.X, size.Y)

\* lines 235-236: images[k] = images[len-1]; images = images[0:len-1]
\* (k is 0-based; mutant: the first element is moved instead of the last)
SwapRemoveMutShift(list, k) ==
    [j \in 1..(Len(list) - 1) |-> IF j = k + 1 THEN list[1] ELSE list[j]]

SwapRemove(list, k) ==
    [j \in 1..(Len(list) - 1) |-> IF j = k + 1 THEN list[Len(list)] ELSE list[j]]

\* line 220 (mutant: only the first candidate is ever taken)
BetterMutFirst(cand) == bestImage < 0

\* (mutant: a candidate with an equal score replaces the best)
BetterMutLeq(cand) == bestImage < 0 \/ cand.Score <= bestCandidate.Score

Better(cand) == bestImage < 0 \/ cand.Score < bestCandidate.Score

\* An AtlasImage as AddImage leaves it: trimmed bounds, AtlasPos zero
Sprite(w, h) == [Bounds |-> Rect(0, 0, w, h), AtlasPos |-> Pt(0, 0)]

\* lines 96-117: the k-th AtlasImage appended by AddImage, with its Path and
\* OrgBounds (an image that TrimImage left whole)
AtlasImage(k, sprite) ==
    [Path |-> k, OrgBounds |-> sprite.Bounds, Bounds |-> sprite.Bounds,
     AtlasPos |-> sprite.AtlasPos]

SpriteSizes == {Sprite(w, h) : w \in 1..MaxDim, h \in 1..MaxDim}

LargeDims == (MaxDim + 1)..(BigCanvas - 2)

LargeSprites == {Sprite(w, h) : w \in LargeDims, h \in LargeDims}

SeqsUpTo(S, n) == UNION {[1..k -> S] : k \in 0..n}

\* main, lines 463-466: width and height are greater than 1
Inputs ==
    {<<Pt(w, h), s>> : w \in 2..MaxCanvas, h \in 2..MaxCanvas,
                       s \in SeqsUpTo(SpriteSizes, MaxSprites)}
    \cup
    {<<Pt(w, h), s>> : w \in 2..BigCanvas, h \in 2..BigCanvas,
                       s \in [1..2 -> LargeSprites]}

\* lines 195-200: the working list points at every sprite, the tree is the
\* root leaf
Init ==
    /\ \E in \in Inputs :
         /\ atlasSize = in[1]
         /\ Images = [k \in 1..Len(in[2]) |-> AtlasImage(k, in[2][k])]
         /\ images = [k \in 1..Len(in[2]) |-> k]
         /\ nodes = <<NewNode(RootRect(in[1]))>>
    /\ pc = "loop"
    /\ i = 0
    /\ bestImage = -1
    /\ bestCandidate = NodeCandidate(Nil, 0)
    /\ candidates = <<>>
    /\ closed = FALSE
    /\ g = "none"
    /\ gSize = Pt(0, 0)
    /\ gStack = <<>>
    /\ gSent = <<>>
    /\ result = "none"
    /\ roundNodes = nodes
    /\ commits = <<>>
    /\ src = NoImage
    /\ trim = EmptyRect
    /\ dst = NoImage
    /\ tpc = "off"

\* lines 202-206 and 239: the head of the outer loop
LoopHead ==
    /\ UNCHANGED trimVars
    /\ pc = "loop"
    /\ IF Len(images) > 0
       THEN /\ bestCandidate' = NodeCandidate(Nil, 0)
            /\ bestImage' = -1
            /\ i' = 0
            /\ pc' = "for"
            /\ roundNodes' = nodes
            /\ UNCHANGED result
       ELSE /\ result' = "ok"
            /\ pc' = "done"
            /\ UNCHANGED <<bestCandidate, bestImage, i, roundNodes>>
    /\ UNCHANGED <<atlasSize, Images, images, nodes, candidates, closed, g,
                   gSize, gStack, gSent, commits>>

\* lines 208-210: the head of the candidate loop; makes the channel and
\* starts the goroutine
ForHead ==
    /\ UNCHANGED trimVars
    /\ pc = "for"
    /\ IF i < Len(images)
       THEN /\ candidates' = <<>>
            /\ closed' = FALSE
            /\ g' = "start"
            /\ pc' = "recv"
       ELSE /\ pc' = "check"
            /\ UNCHANGED <<candidates, closed, g>>
    /\ UNCHANGED <<atlasSize, Images, images, nodes, i, bestImage,
                   bestCandidate, gSize, gStack, gSent, result, roundNodes, commits>>

\* line 211: the goroutine evaluates the size from images[i], both read
\* through the closure, and enters the search at the root
GoBegin ==
    /\ UNCHANGED trimVars
    /\ g = "start"
    /\ gSize' = PaddedSize(Images[images[i + 1]])
    /\ gStack' = <<1>>
    /\ gSent' = <<>>
    /\ g' = "search"
    /\ UNCHANGED <<atlasSize, Images, images, nodes, pc, i, bestImage,
                   bestCandidate, candidates, closed, result, roundNodes,
                   commits>>

\* lines 150-161: the search runs on to its next send, which blocks while
\* the buffer is full
GoSend ==
    /\ UNCHANGED trimVars
    /\ g = "search"
    /\ LET a == Advance(nodes, gStack, gSize)
       IN  /\ a.found
           /\ Len(candidates) < ChanCap
           /\ candidates' = Append(candidates, a.cand)
           /\ gStack' = a.stack
           /\ gSent' = Append(gSent, a.cand)
    /\ UNCHANGED <<atlasSize, Images, images, nodes, pc, i, bestImage,
                   bestCandidate, closed, g, gSize, result, roundNodes,
                   commits>>

\* (mutant of GoClose: the goroutine ends without closing the channel)
GoCloseMutNoClose ==
    /\ UNCHANGED trimVars
    /\ g = "search"
    /\ ~Advance(nodes, gStack, gSize).found
    /\ closed' = closed
    /\ gStack' = <<>>
    /\ g' = "none"
    /\ UNCHANGED gSent
    /\ UNCHANGED <<atlasSize, Images, images, nodes, pc, i, bestImage,
                   bestCandidate, candidates, gSize, result, roundNodes,
                   commits>>

\* line 212: the search has returned; the goroutine closes the channel
GoClose ==
    /\ UNCHANGED trimVars
    /\ g = "search"
    /\ ~Advance(nodes, gStack, gSize).found
    /\ closed' = TRUE
    /\ gStack' = <<>>
    /\ g' = "none"
    /\ UNCHANGED gSent
    /\ UNCHANGED <<atlasSize, Images, images, nodes, pc, i, bestImage,
                   bestCandidate, candidates, gSize, result, roundNodes,
                   commits>>

\* (mutant of Recv: a better candidate is committed at once, without
\* waiting for the channel to be closed)
RecvMutEager ==
    /\ UNCHANGED trimVars
    /\ pc = "recv"
    /\ candidates # <<>>
    /\ LET candidate == Head(candidates)
       IN  IF Better(candidate)
           THEN /\ bestImage' = i
                /\ bestCandidate' = candidate
                /\ pc' = "insert"
           ELSE UNCHANGED <<bestImage, bestCandidate, pc>>
    /\ candidates' = Tail(candidates)
    /\ UNCHANGED <<atlasSize, Images, images, nodes, i, closed, g, gSize,
                   gStack, gSent, result, roundNodes, commits>>

\* lines 216-224: a candidate is received
Recv ==
    /\ UNCHANGED trimVars
    /\ pc = "recv"
    /\ candidates # <<>>
    /\ LET candidate == Head(candidates)
       IN  IF Better(candidate)
           THEN /\ bestImage' = i
                /\ bestCandidate' = candidate
           ELSE UNCHANGED <<bestImage, bestCandidate>>
    /\ candidates' = Tail(candidates)
    /\ UNCHANGED <<atlasSize, Images, images, nodes, pc, i, closed, g, gSize,
                   gStack, gSent, result, roundNodes, commits>>

\* (mutant of RecvClosed: once the goroutine runs, the loop is left as soon
\* as the buffer is empty, whether or not the channel has been closed)
RecvClosedMutNonBlocking ==
    /\ UNCHANGED trimVars
    /\ pc = "recv"
    /\ candidates = <<>>
    /\ g # "start"
    /\ i' = i + 1
    /\ pc' = "for"
    /\ UNCHANGED <<atlasSize, Images, images, nodes, bestImage, bestCandidate,
                   candidates, closed, g, gSize, gStack, gSent, result, roundNodes,
                   commits>>

\* lines 216-219 and 208: the channel is closed and drained; next sprite
RecvClosed ==
    /\ UNCHANGED trimVars
    /\ pc = "recv"
    /\ candidates = <<>>
    /\ closed
    /\ i' = i + 1
    /\ pc' = "for"
    /\ UNCHANGED <<atlasSize, Images, images, nodes, bestImage, bestCandidate,
                   candidates, closed, g, gSize, gStack, gSent, result, roundNodes,
                   commits>>

\* lines 228-230
Check ==
    /\ UNCHANGED trimVars
    /\ pc = "check"
    /\ IF bestImage < 0
       THEN /\ result' = "fail"
            /\ pc' = "done"
       ELSE /\ pc' = "insert"
            /\ UNCHANGED result
    /\ UNCHANGED <<atlasSize, Images, images, nodes, i, bestImage,
                   bestCandidate, candidates, closed, g, gSize, gStack, gSent,
                   roundNodes, commits>>

\* (mutant of Commit: the working list holds the sprites by value in
\* a.Images' own storage, so that the swap-remove overwrites a sprite)
CommitMutValueSwap ==
    /\ UNCHANGED trimVars
    /\ pc = "insert"
    /\ LET k == images[bestImage + 1]
           ins == Insert(nodes, bestCandidate.Candidate, PaddedSize(Images[k]))
       IN  IF ins.panic
           THEN /\ result' = "panic"
                /\ pc' = "done"
                /\ UNCHANGED <<Images, images, nodes, commits>>
           ELSE /\ nodes' = ins.nodes
                /\ Images' = [[Images EXCEPT ![k].AtlasPos = ins.r.Min]
                                 EXCEPT ![k] = IF bestImage + 1 = Len(images)
                                               THEN @
                                               ELSE Images[images[Len(images)]]]
                /\ images' = SwapRemove(images, bestImage)
                /\ commits' = Append(commits,
                                     [img |-> k, node |-> bestCandidate.Candidate,
                                      score |-> bestCandidate.Score, r |-> ins.r])
                /\ pc' = "loop"
                /\ UNCHANGED result
    /\ UNCHANGED <<atlasSize, i, bestImage, bestCandidate, candidates, closed,
                   g, gSize, gStack, gSent, roundNodes>>

\* lines 232-236: the Insert, the position, the swap-remove
Commit ==
    /\ UNCHANGED trimVars
    /\ pc = "insert"
    /\ LET k == images[bestImage + 1]
           ins == Insert(nodes, bestCandidate.Candidate, PaddedSize(Images[k]))
       IN  IF ins.panic
           THEN /\ result' = "panic"
                /\ pc' = "done"
                /\ UNCHANGED <<Images, images, nodes, commits>>
           ELSE /\ nodes' = ins.nodes
                /\ Images' = [Images EXCEPT ![k].AtlasPos = ins.r.Min]
                /\ images' = SwapRemove(images, bestImage)
                /\ commits' = Append(commits,
                                     [img |-> k, node |-> bestCandidate.Candidate,
                                      score |-> bestCandidate.Score, r |-> ins.r])
                /\ pc' = "loop"
                /\ UNCHANGED result
    /\ UNCHANGED <<atlasSize, i, bestImage, bestCandidate, candidates, closed,
                   g, gSize, gStack, gSent, roundNodes>>

Next ==
    \/ LoopHead
    \/ ForHead
    \/ GoBegin
    \/ GoSend
    \/ GoClose
    \/ Recv
    \/ RecvClosed
    \/ Check
    \/ Commit

Spec == Init /\ [][Next]_vars

(***************************************************************************)
(* Atlas.AtlasMeta                                                         *)
(***************************************************************************)
\* line 310: the image that a key of meta.Images ends up describing (the
\* last one written under it)
LastWithPath(imgs, p) ==
    CHOOSE k \in 1..Len(imgs) :
        /\ imgs[k].Path = p
        /\ \A j \in 1..Len(imgs) : imgs[j].Path = p => j <= k

\* lines 310-315 (mutant: the coordinates of Position are exchanged)
ImageMetaMutSwap(img) ==
    [Position |-> Pt(img.AtlasPos.Y, img.AtlasPos.X),
     Size |-> [Width |-> Dx(img.Bounds), Height |-> Dy(img.Bounds)],
     OriginalSize |-> [Width |-> Dx(img.OrgBounds), Height |-> Dy(img.OrgBounds)],
     Offset |-> Pt(img.Bounds.Min.X, img.Bounds.Min.Y)]

ImageMeta(img) ==
    [Position |-> Pt(img.AtlasPos.X, img.AtlasPos.Y),
     Size |-> [Width |-> Dx(img.Bounds), Height |-> Dy(img.Bounds)],
     OriginalSize |-> [Width |-> Dx(img.OrgBounds), Height |-> Dy(img.OrgBounds)],
     Offset |-> Pt(img.Bounds.Min.X, img.Bounds.Min.Y)]

\* lines 305-319
AtlasMeta(imgs, size) ==
    [Size |-> [Width |-> size.X, Height |-> size.Y],
     Images |-> [p \in {imgs[k].Path : k \in 1..Len(imgs)} |->
                    ImageMeta(imgs[LastWithPath(imgs, p)])]]

(***************************************************************************)
(* TrimImage as a process of its own: line 47, then the four loops, then   *)
(* line 65.  PackImages does not run (pc = "off").                         *)
(***************************************************************************)
TrimInit ==
    /\ \E o \in Origins : \E w \in 1..MaxImg : \E h \in 1..MaxImg :
          \E a \in [1..(w * h) -> Alphas] :
              src = NewRGBA(Rect(o.X, o.Y, o.X + w, o.Y + h), a)
    /\ trim = src.Rect
    /\ dst = NoImage
    /\ tpc = "right"
    /\ atlasSize = Pt(0, 0)
    /\ Images = <<>>
    /\ images = <<>>
    /\ nodes = <<>>
    /\ pc = "off"
    /\ i = 0
    /\ bestImage = -1
    /\ bestCandidate = NodeCandidate(Nil, 0)
    /\ candidates = <<>>
    /\ closed = FALSE
    /\ g = "none"
    /\ gSize = Pt(0, 0)
    /\ gStack = <<>>
    /\ gSent = <<>>
    /\ result = "none"
    /\ roundNodes = <<>>
    /\ commits = <<>>

\* (mutant of TrimRight: the loop runs while the width is greater than 0)
TrimRightMutZero ==
    /\ tpc = "right"
    /\ IF trim.Max.X - trim.Min.X > 0 /\ ImageMaxAlpha(SubImage(src, RightStrip(trim))) = 0
       THEN /\ trim' = [trim EXCEPT !.Max.X = @ - 1]
            /\ UNCHANGED tpc
       ELSE /\ tpc' = "left"
            /\ UNCHANGED trim
    /\ UNCHANGED <<src, dst, packVars>>

\* lines 51-53
TrimRight ==
    /\ tpc = "right"
    /\ IF trim.Max.X - trim.Min.X > 1 /\ ImageMaxAlpha(SubImage(src, RightStrip(trim))) = 0
       THEN /\ trim' = [trim EXCEPT !.Max.X = @ - 1]
            /\ UNCHANGED tpc
       ELSE /\ tpc' = "left"
            /\ UNCHANGED trim
    /\ UNCHANGED <<src, dst, packVars>>

\* lines 54-56
TrimLeft ==
    /\ tpc = "left"
    /\ IF trim.Max.X - trim.Min.X > 1 /\ ImageMaxAlpha(SubImage(src, LeftStrip(trim))) = 0
       THEN /\ trim' = [trim EXCEPT !.Min.X = @ + 1]
            /\ UNCHANGED tpc
       ELSE /\ tpc' = "bottom"
            /\ UNCHANGED trim
    /\ UNCHANGED <<src, dst, packVars>>

\* lines 58-60
TrimBottom ==
    /\ tpc = "bottom"
    /\ IF trim.Max.Y - trim.Min.Y > 1 /\ ImageMaxAlpha(SubImage(src, BottomStrip(trim))) = 0
       THEN /\ trim' = [trim EXCEPT !.Max.Y = @ - 1]
            /\ UNCHANGED tpc
       ELSE /\ tpc' = "top"
            /\ UNCHANGED trim
    /\ UNCHANGED <<src, dst, packVars>>

\* lines 61-63
TrimTop ==
    /\ tpc = "top"
    /\ IF trim.Max.Y - trim.Min.Y > 1 /\ ImageMaxAlpha(SubImage(src, TopStrip(trim))) = 0
       THEN /\ trim' = [trim EXCEPT !.Min.Y = @ + 1]
            /\ UNCHANGED tpc
       ELSE /\ tpc' = "return"
            /\ UNCHANGED trim
    /\ UNCHANGED <<src, dst, packVars>>

\* line 65
TrimReturn ==
    /\ tpc = "return"
    /\ dst' = SubImage(src, trim)
    /\ tpc' = "done"
    /\ UNCHANGED <<src, trim, packVars>>

TrimNext ==
    \/ TrimRight
    \/ TrimLeft
    \/ TrimBottom
    \/ TrimTop
    \/ TrimReturn

TrimSpec == TrimInit /\ [][TrimNext]_vars

(***************************************************************************)
(* What the properties speak of, stated independently of the operators     *)
(* above.                                                                  *)
(***************************************************************************)
\* the sprites placed so far
PlacedSet == {commits[j].img : j \in 1..Len(commits)}

\* the padded rectangle [x, x+w+1) x [y, y+h+1) of sprite k at its AtlasPos
PaddedRectOf(k) ==
    LET p == Images[k].AtlasPos
        w == Images[k].Bounds.Max.X - Images[k].Bounds.Min.X
        h == Images[k].Bounds.Max.Y - Images[k].Bounds.Min.Y
    IN  [x0 |-> p.X, y0 |-> p.Y, x1 |-> p.X + w + 1, y1 |-> p.Y + h + 1]

\* the pixel rectangle [x, x+w) x [y, y+h) of sprite k at its AtlasPos
PixelRectOf(k) ==
    LET q == PaddedRectOf(k)
    IN  [x0 |-> q.x0, y0 |-> q.y0, x1 |-> q.x1 - 1, y1 |-> q.y1 - 1]

Box(r) == [x0 |-> r.Min.X, y0 |-> r.Min.Y, x1 |-> r.Max.X, y1 |-> r.Max.Y]

Intersect(a, b) ==
    /\ a.x0 < b.x1 /\ b.x0 < a.x1
    /\ a.y0 < b.y1 /\ b.y0 < a.y1

Inside(a, b) ==
    /\ b.x0 <= a.x0 /\ a.x1 <= b.x1
    /\ b.y0 <= a.y0 /\ a.y1 <= b.y1

\* the leaves of tree ns
LeavesOf(ns) == {n \in 1..Len(ns) : ns[n].Left = Nil}

\* the unused leaves of ns at least as large as sprite k's padded size
FreeFor(ns, k) ==
    {n \in LeavesOf(ns) :
        /\ ~ns[n].Used
        /\ Box(ns[n].Rect).x1 - Box(ns[n].Rect).x0 >= PaddedRectOf(k).x1 - PaddedRectOf(k).x0
        /\ Box(ns[n].Rect).y1 - Box(ns[n].Rect).y0 >= PaddedRectOf(k).y1 - PaddedRectOf(k).y0}

Min2(a, b) == IF a <= b THEN a ELSE b

\* min(leaf width - padded width, leaf height - padded height)
SlackScore(ns, n, k) ==
    Min2((Box(ns[n].Rect).x1 - Box(ns[n].Rect).x0) - (PaddedRectOf(k).x1 - PaddedRectOf(k).x0),
         (Box(ns[n].Rect).y1 - Box(ns[n].Rect).y0) - (PaddedRectOf(k).y1 - PaddedRectOf(k).y0))

Remaining == {images[j] : j \in 1..Len(images)}

(***************************************************************************)
(* C1: the padded rectangles of any two distinct placed sprites do not     *)
(* intersect (also for the sprites placed before a failure), so their      *)
(* pixel rectangles are at least one pixel apart.                          *)
(***************************************************************************)
C1_NoOverlap ==
    \A a \in PlacedSet : \A b \in PlacedSet :
        a # b =>
            /\ ~Intersect(PaddedRectOf(a), PaddedRectOf(b))
            /\ \/ PixelRectOf(a).x1 < PixelRectOf(b).x0
               \/ PixelRectOf(b).x1 < PixelRectOf(a).x0
               \/ PixelRectOf(a).y1 < PixelRectOf(b).y0
               \/ PixelRectOf(b).y1 < PixelRectOf(a).y0

\* PackImages has returned with two sprites placed
C1_Witness == Cardinality(PlacedSet) >= 2 /\ pc = "done"

(***************************************************************************)
(* C2: every placed sprite's padded rectangle lies inside the inset root   *)
(* rectangle [1, W) x [1, H), hence its pixels inside [0, W) x [0, H).     *)
(***************************************************************************)
C2_Contained ==
    \A k \in PlacedSet :
        /\ Inside(PaddedRectOf(k),
                  [x0 |-> 1, y0 |-> 1, x1 |-> atlasSize.X, y1 |-> atlasSize.Y])
        /\ Inside(PixelRectOf(k),
                  [x0 |-> 0, y0 |-> 0, x1 |-> atlasSize.X, y1 |-> atlasSize.Y])

\* a sprite placed flush against the right and bottom edge of the root
C2_Witness ==
    \E k \in PlacedSet :
        /\ PaddedRectOf(k).x1 = atlasSize.X
        /\ PaddedRectOf(k).y1 = atlasSize.Y

(***************************************************************************)
(* C3: the leaves of the tree are pairwise non-overlapping, each of        *)
(* positive width and height, their union is the root rectangle, and the   *)
(* two children of an internal node exactly partition its rectangle.       *)
(***************************************************************************)
C3_Partition ==
    LET root == [x0 |-> 1, y0 |-> 1, x1 |-> atlasSize.X, y1 |-> atlasSize.Y]
        leaves == LeavesOf(nodes)
    IN  /\ Box(nodes[1].Rect) = root
        /\ \A n \in leaves :
              /\ Box(nodes[n].Rect).x0 < Box(nodes[n].Rect).x1
              /\ Box(nodes[n].Rect).y0 < Box(nodes[n].Rect).y1
              /\ Inside(Box(nodes[n].Rect), root)
        /\ \A m \in leaves : \A n \in leaves :
              m # n => ~Intersect(Box(nodes[m].Rect), Box(nodes[n].Rect))
        /\ \A x \in root.x0..(root.x1 - 1) : \A y \in root.y0..(root.y1 - 1) :
              \E n \in leaves :
                  Inside([x0 |-> x, y0 |-> y, x1 |-> x + 1, y1 |-> y + 1],
                         Box(nodes[n].Rect))
        /\ \A n \in (1..Len(nodes)) \ leaves :
              LET p == Box(nodes[n].Rect)
                  l == Box(nodes[nodes[n].Left].Rect)
                  r == Box(nodes[nodes[n].Right].Rect)
              IN  /\ nodes[n].Right # Nil
                  /\ l.x0 = p.x0 /\ l.y0 = p.y0
                  /\ r.x1 = p.x1 /\ r.y1 = p.y1
                  /\ \/ l.y1 = p.y1 /\ r.y0 = p.y0 /\ r.x0 = l.x1
                               /\ p.x0 < l.x1 /\ l.x1 < p.x1
                     \/ l.x1 = p.x1 /\ r.x0 = p.x0 /\ r.y0 = l.y1
                               /\ p.y0 < l.y1 /\ l.y1 < p.y1

\* a tree after two Inserts of which one split both ways
C3_Witness == Len(commits) >= 2 /\ Len(nodes) >= 7

(***************************************************************************)
(* C4: PackImages returns nil only after every sprite has been committed   *)
(* exactly once, and the error exactly when a round ends having found no   *)
(* candidate for any remaining sprite; the working list and the placed     *)
(* sprites always partition a.Images.                                      *)
(***************************************************************************)
C4_Outcomes ==
    /\ pc = "done" <=> result # "none"
    /\ result \in {"none", "ok", "fail"}
    /\ Len(images) + Len(commits) = Len(Images)
    /\ \A k \in 1..Len(Images) :
          Cardinality({j \in 1..Len(images) : images[j] = k})
              + Cardinality({j \in 1..Len(commits) : commits[j].img = k}) = 1
    /\ result = "ok" =>
          /\ images = <<>>
          /\ Len(commits) = Len(Images)
          /\ \A k \in 1..Len(Images) :
                Cardinality({j \in 1..Len(commits) : commits[j].img = k}) = 1
    /\ result = "fail" =>
          /\ images # <<>>
          /\ \A k \in Remaining : FreeFor(nodes, k) = {}
    /\ pc = "check" =>
          (bestImage < 0 <=> \A k \in Remaining : FreeFor(nodes, k) = {})

\* a successful run that removed the first of several sprites first
C4_Witness ==
    /\ result = "ok"
    /\ Len(commits) >= 2
    /\ commits[1].img = 1

(***************************************************************************)
(* C5: once a remaining sprite has no candidate (at the start of a round   *)
(* in particular), every later step leaves some remaining sprite without   *)
(* a candidate, and when PackImages returns it returns the fit-failure     *)
(* error, never success.                                                   *)
(***************************************************************************)
C5_Stuck == \E k \in Remaining : FreeFor(nodes, k) = {}

C5_StuckFails ==
    [][C5_Stuck =>
          /\ C5_Stuck'
          /\ pc' = "done" => result' = "fail"
          /\ result' \in {"none", "fail"}]_vars

\* a round starts with a sprite that has no candidate while another
\* sprite still fits, and is then placed
C5_Witness ==
    /\ C5_Stuck
    /\ result = "fail"
    /\ Len(commits) >= 1
    /\ \E k \in Remaining :
          \/ PaddedRectOf(k).x1 - PaddedRectOf(k).x0 > atlasSize.X - 1
          \/ PaddedRectOf(k).y1 - PaddedRectOf(k).y0 > atlasSize.Y - 1

(***************************************************************************)
(* C6 as stated: on a 4x4 canvas with two 1x1 sprites PackImages places    *)
(* both without overlap within the canvas and returns success.             *)
(***************************************************************************)
C6_TwoUnitSprites ==
    /\ Len(Images) = 2
    /\ \A k \in 1..2 : Images[k].Bounds = [Min |-> Pt(0, 0), Max |-> Pt(1, 1)]

C6_Original ==
    (C6_TwoUnitSprites /\ atlasSize = Pt(4, 4) /\ pc = "done") =>
        /\ result = "ok"
        /\ PlacedSet = {1, 2}
        /\ ~Intersect(PixelRectOf(1), PixelRectOf(2))
        /\ \A k \in 1..2 :
              Inside(PixelRectOf(k), [x0 |-> 0, y0 |-> 0, x1 |-> 4, y1 |-> 4])

(***************************************************************************)
(* C6 amended: on a 4x4 canvas with two 1x1 sprites PackImages places the  *)
(* first sprite at (1,1) and returns the fit-failure error, the second     *)
(* sprite unplaced; on a 5x5 canvas it places both, at (1,1) and (1,3),    *)
(* without overlap within the canvas, and returns success.                 *)
(***************************************************************************)
C6_Amended ==
    (C6_TwoUnitSprites /\ pc = "done") =>
        /\ atlasSize = Pt(4, 4) =>
              /\ result = "fail"
              /\ PlacedSet = {1}
              /\ Images[1].AtlasPos = Pt(1, 1)
              /\ Images[2].AtlasPos = Pt(0, 0)
        /\ atlasSize = Pt(5, 5) =>
              /\ result = "ok"
              /\ PlacedSet = {1, 2}
              /\ Images[1].AtlasPos = Pt(1, 1)
              /\ Images[2].AtlasPos = Pt(1, 3)
              /\ ~Intersect(PaddedRectOf(1), PaddedRectOf(2))
              /\ \A k \in 1..2 :
                    Inside(PixelRectOf(k), [x0 |-> 0, y0 |-> 0, x1 |-> 5, y1 |-> 5])

\* the run on the 4x4 canvas has returned
C6_Witness == C6_TwoUnitSprites /\ atlasSize = Pt(4, 4) /\ pc = "done"

(***************************************************************************)
(* C7: the pair about to be committed is a remaining sprite and an unused  *)
(* leaf that fits it, its score is min(leaf width - padded width, leaf     *)
(* height - padded height), and no pair (remaining sprite, unused fitting  *)
(* leaf) of the tree at the start of the round has a lower score.          *)
(***************************************************************************)
C7_BestScore ==
    pc = "insert" =>
        LET k == images[bestImage + 1]
            n == bestCandidate.Candidate
        IN  /\ n \in FreeFor(roundNodes, k)
            /\ bestCandidate.Score = SlackScore(roundNodes, n, k)
            /\ \A k2 \in Remaining : \A n2 \in FreeFor(roundNodes, k2) :
                  bestCandidate.Score <= SlackScore(roundNodes, n2, k2)

\* the committed pair is not the first one encountered in the round, and
\* some pair of the round scores strictly higher
C7_Witness ==
    /\ pc = "insert"
    /\ bestImage > 0
    /\ \E k2 \in Remaining : \E n2 \in FreeFor(roundNodes, k2) :
          bestCandidate.Score < SlackScore(roundNodes, n2, k2)
    /\ \E n2 \in FreeFor(roundNodes, images[1]) :
          bestCandidate.Score < SlackScore(roundNodes, n2, images[1])

(***************************************************************************)
(* C8: the tree changes only when the goroutine of every sprite of the     *)
(* round has finished and closed its channel and every candidate has been  *)
(* received, and only once per round: while a search is running or a       *)
(* sprite is still to be searched for, the tree is the tree of the start   *)
(* of the round.                                                           *)
(***************************************************************************)
C8_Frozen ==
    [][/\ nodes' # nodes =>
            /\ g = "none"
            /\ closed
            /\ candidates = <<>>
            /\ i = Len(images)
            /\ nodes = roundNodes
            /\ pc' = "loop"
       /\ (g # "none" \/ pc \in {"for", "recv", "check"}) => nodes = roundNodes
       /\ (g' # "none" \/ pc' \in {"for", "recv", "check"}) => nodes' = roundNodes'
      ]_vars

\* the second round's Insert is about to run: the searches of two sprites
\* are over
C8_Witness ==
    /\ pc = "insert"
    /\ Len(commits) = 1
    /\ Len(images) >= 1
    /\ Len(nodes) > 1

(***************************************************************************)
(* C9: with two or more sprites, each of an area larger than half the      *)
(* canvas area, PackImages returns the fit-failure error.                  *)
(***************************************************************************)
C9_AllLarge ==
    /\ Len(Images) >= 2
    /\ \A k \in 1..Len(Images) :
          2 * (PixelRectOf(k).x1 - PixelRectOf(k).x0)
            * (PixelRectOf(k).y1 - PixelRectOf(k).y0) > atlasSize.X * atlasSize.Y

C9_LargeFail == (C9_AllLarge /\ pc = "done") => result = "fail"

\* the first large sprite was placed, the next one no longer fits
C9_Witness == C9_AllLarge /\ pc = "done" /\ Len(commits) = 1

(***************************************************************************)
(* C10: for an image with at least one pixel of non-zero alpha, TrimImage  *)
(* returns the sub-image whose bounds are the minimal rectangle holding    *)
(* all pixels of non-zero alpha; its Min corner is the trim offset in the  *)
(* original image's coordinates, and its pixels are the original's.        *)
(***************************************************************************)
\* the alpha of pixel (x, y), in image coordinates, of image img
AlphaOf(img, x, y) ==
    img.Pix[img.Off + (y - img.Rect.Min.Y) * img.Stride + (x - img.Rect.Min.X) * 4 + 4]

\* the pixels of src of non-zero alpha
Opaque ==
    {<<x, y>> \in (src.Rect.Min.X..(src.Rect.Max.X - 1)) \X (src.Rect.Min.Y..(src.Rect.Max.Y - 1)) :
        AlphaOf(src, x, y) # 0}

C10_TightTrim ==
    (tpc = "done" /\ Opaque # {}) =>
        /\ \A q \in Opaque :
              /\ dst.Rect.Min.X <= q[1] /\ q[1] < dst.Rect.Max.X
              /\ dst.Rect.Min.Y <= q[2] /\ q[2] < dst.Rect.Max.Y
        /\ \E q \in Opaque : q[1] = dst.Rect.Min.X
        /\ \E q \in Opaque : q[1] = dst.Rect.Max.X - 1
        /\ \E q \in Opaque : q[2] = dst.Rect.Min.Y
        /\ \E q \in Opaque : q[2] = dst.Rect.Max.Y - 1
        /\ \A x \in dst.Rect.Min.X..(dst.Rect.Max.X - 1) :
              \A y \in dst.Rect.Min.Y..(dst.Rect.Max.Y - 1) :
                  AlphaOf(dst, x, y) = AlphaOf(src, x, y)

\* an opaque pixel strictly inside a transparent frame, at a non-zero origin
C10_Witness ==
    /\ tpc = "done"
    /\ Opaque # {}
    /\ src.Rect.Min # Pt(0, 0)
    /\ dst.Rect.Min.X > src.Rect.Min.X /\ dst.Rect.Max.X < src.Rect.Max.X
    /\ dst.Rect.Min.Y > src.Rect.Min.Y /\ dst.Rect.Max.Y < src.Rect.Max.Y

(***************************************************************************)
(* C11: for an image of width and height >= 1 the rectangle of TrimImage   *)
(* always has width and height >= 1 and lies in the original bounds, every *)
(* alpha byte read lies in the pixel array (no panic), and the result is   *)
(* that rectangle; for a fully transparent image it is exactly 1x1.        *)
(***************************************************************************)
C11_NonEmptyTrim ==
    tpc # "off" =>
        /\ trim.Max.X - trim.Min.X >= 1
        /\ trim.Max.Y - trim.Min.Y >= 1
        /\ src.Rect.Min.X <= trim.Min.X /\ trim.Max.X <= src.Rect.Max.X
        /\ src.Rect.Min.Y <= trim.Min.Y /\ trim.Max.Y <= src.Rect.Max.Y
        /\ \A x \in trim.Min.X..(trim.Max.X - 1) : \A y \in trim.Min.Y..(trim.Max.Y - 1) :
              LET j == (y - src.Rect.Min.Y) * src.Stride + (x - src.Rect.Min.X) * 4 + 4
              IN  1 <= j /\ j <= Len(src.Pix)
        /\ tpc = "done" =>
              /\ dst.Rect = trim
              /\ dst.Pix = src.Pix
              /\ Opaque = {} =>
                    /\ dst.Rect.Max.X - dst.Rect.Min.X = 1
                    /\ dst.Rect.Max.Y - dst.Rect.Min.Y = 1

\* a fully transparent image wider and higher than one pixel has been trimmed
C11_Witness ==
    /\ tpc = "done"
    /\ Opaque = {}
    /\ src.Rect.Max.X - src.Rect.Min.X > 1
    /\ src.Rect.Max.Y - src.Rect.Min.Y > 1

(***************************************************************************)
(* C12: after a successful PackImages every sprite's metadata satisfies    *)
(* 0 <= x < x+w <= W and 0 <= y < y+h <= H, that is 0 <= u0 < u1 <= 1 and  *)
(* 0 <= v0 < v1 <= 1 for u0 = x/W, u1 = (x+w)/W, v0 = y/H, v1 = (y+h)/H.   *)
(***************************************************************************)
C12_UVRange ==
    result = "ok" =>
        LET meta == AtlasMeta(Images, atlasSize)
        IN  /\ DOMAIN meta.Images = 1..Len(Images)
            /\ \A p \in DOMAIN meta.Images :
                  LET im == meta.Images[p]
                  IN  /\ 0 <= im.Position.X
                      /\ im.Position.X < im.Position.X + im.Size.Width
                      /\ im.Position.X + im.Size.Width <= meta.Size.Width
                      /\ 0 <= im.Position.Y
                      /\ im.Position.Y < im.Position.Y + im.Size.Height
                      /\ im.Position.Y + im.Size.Height <= meta.Size.Height
                      \* the same, on the quotients, cross-multiplied
                      /\ im.Position.X * meta.Size.Width
                            < (im.Position.X + im.Size.Width) * meta.Size.Width
                      /\ im.Position.Y * meta.Size.Height
                            < (im.Position.Y + im.Size.Height) * meta.Size.Height

\* a successful run that put two sprites side by side on a wide canvas
C12_Witness ==
    /\ result = "ok"
    /\ Len(Images) >= 2
    /\ atlasSize.X > atlasSize.Y
    /\ \E k \in 1..Len(Images) : Images[k].AtlasPos.X > 1

(***************************************************************************)
(* C13 as stated: a node whose Used flag is true has no children, a node   *)
(* that has children never has its Used flag set, and the Used flag is set *)
(* only on a leaf whose rectangle exactly equals the requested size.       *)
(***************************************************************************)
C13_Original ==
    \A n \in 1..Len(nodes) :
        /\ nodes[n].Used => (nodes[n].Left = Nil /\ nodes[n].Right = Nil)
        /\ (nodes[n].Left # Nil \/ nodes[n].Right # Nil) => ~nodes[n].Used
        /\ nodes[n].Used =>
              \E j \in 1..Len(commits) :
                  Box(nodes[n].Rect) = PaddedRectOf(commits[j].img)

(***************************************************************************)
(* C13 amended: Insert sets the Used flag on every node it is called on,   *)
(* before it decides whether to split.  So every node that has children    *)
(* (always both) has its Used flag set, every node whose flag is unset is  *)
(* a leaf, and a leaf has the flag set exactly when it is the rectangle    *)
(* returned for a committed sprite, equal to that sprite's padded size.    *)
(***************************************************************************)
C13_Amended ==
    \A n \in 1..Len(nodes) :
        /\ nodes[n].Left # Nil <=> nodes[n].Right # Nil
        /\ nodes[n].Left # Nil => nodes[n].Used
        /\ ~nodes[n].Used => nodes[n].Left = Nil
        /\ nodes[n].Left = Nil =>
              (nodes[n].Used <=>
                  \E j \in 1..Len(commits) :
                      /\ commits[j].r = nodes[n].Rect
                      /\ Box(nodes[n].Rect) = PaddedRectOf(commits[j].img))

\* an Insert has split a leaf: the split node and the placed leaf are Used
C13_Witness ==
    \E n \in 1..Len(nodes) :
        /\ nodes[n].Used
        /\ nodes[n].Left # Nil
        /\ nodes[nodes[n].Left].Used

(***************************************************************************)
(* C14: a search started at the root sends only unused leaves at least as  *)
(* large as the requested size, none twice, each with the score            *)
(* min(width - size.X, height - size.Y), and by the time it returns (the   *)
(* channel is closed) it has sent every such leaf of the tree.             *)
(***************************************************************************)
\* the unused leaves of ns at least as large as size
FittingLeaves(ns, size) ==
    {n \in LeavesOf(ns) :
        /\ ~ns[n].Used
        /\ Box(ns[n].Rect).x1 - Box(ns[n].Rect).x0 >= size.X
        /\ Box(ns[n].Rect).y1 - Box(ns[n].Rect).y0 >= size.Y}

C14_ExactCandidates ==
    (pc = "recv" /\ g # "start") =>
        /\ \A j \in 1..Len(gSent) :
              LET n == gSent[j].Candidate
              IN  /\ n \in FittingLeaves(nodes, gSize)
                  /\ gSent[j].Score =
                        Min2(Box(nodes[n].Rect).x1 - Box(nodes[n].Rect).x0 - gSize.X,
                             Box(nodes[n].Rect).y1 - Box(nodes[n].Rect).y0 - gSize.Y)
                  /\ \A j2 \in 1..Len(gSent) :
                        j2 # j => gSent[j2].Candidate # n
        /\ closed =>
              {gSent[j].Candidate : j \in 1..Len(gSent)} = FittingLeaves(nodes, gSize)

\* a finished search that sent a leaf with unequal slacks and passed over a
\* used leaf and an unused leaf that is too small
C14_Witness ==
    /\ pc = "recv"
    /\ closed
    /\ Len(gSent) >= 1
    /\ \E n \in LeavesOf(nodes) : nodes[n].Used
    /\ \E n \in LeavesOf(nodes) : ~nodes[n].Used /\ n \notin FittingLeaves(nodes, gSize)
    /\ \E j \in 1..Len(gSent) :
          Box(nodes[gSent[j].Candidate].Rect).x1 - Box(nodes[gSent[j].Candidate].Rect).x0 - gSize.X
            # Box(nodes[gSent[j].Candidate].Rect).y1 - Box(nodes[gSent[j].Candidate].Rect).y0 - gSize.Y

(***************************************************************************)
(* C15: every Insert of PackImages returned a rectangle of exactly the     *)
(* padded size whose top-left corner is the top-left corner of the leaf it *)
(* was called on, after at most two splits; the leaf was split iff it was  *)
(* not an exact fit, the first split is vertical (the left child keeps the *)
(* leaf's height and has the requested width) when the width slack is >=   *)
(* the height slack and horizontal (the left child keeps the leaf's width  *)
(* and has the requested height) otherwise.                                *)
(***************************************************************************)
\* the requested size of commit j: the sprite's bounds plus one each way
C15_Size(j) ==
    LET b == Box(Images[commits[j].img].Bounds)
    IN  [w |-> b.x1 - b.x0 + 1, h |-> b.y1 - b.y0 + 1]

\* the slack of the leaf that commit j was called on
C15_Slack(j) ==
    LET b == Box(nodes[commits[j].node].Rect)
    IN  [x |-> b.x1 - b.x0 - C15_Size(j).w, y |-> b.y1 - b.y0 - C15_Size(j).h]

C15_InsertResult ==
    \A j \in 1..Len(commits) :
        LET n  == commits[j].node
            b  == Box(nodes[n].Rect)
            r  == Box(commits[j].r)
            sz == C15_Size(j)
            ds == C15_Slack(j)
            l  == nodes[n].Left
        IN  /\ r = [x0 |-> b.x0, y0 |-> b.y0, x1 |-> b.x0 + sz.w, y1 |-> b.y0 + sz.h]
            /\ ds.x >= 0 /\ ds.y >= 0
            /\ (ds.x = 0 /\ ds.y = 0) <=> l = Nil
            /\ \/ l = Nil
               \/ nodes[l].Left = Nil
               \/ nodes[nodes[l].Left].Left = Nil
            /\ l # Nil =>
                  LET lb == Box(nodes[l].Rect)
                      rb == Box(nodes[nodes[n].Right].Rect)
                  IN  IF ds.x >= ds.y
                      THEN /\ lb = [x0 |-> b.x0, y0 |-> b.y0,
                                    x1 |-> b.x0 + sz.w, y1 |-> b.y1]
                           /\ rb = [x0 |-> b.x0 + sz.w, y0 |-> b.y0,
                                    x1 |-> b.x1, y1 |-> b.y1]
                      ELSE /\ lb = [x0 |-> b.x0, y0 |-> b.y0,
                                    x1 |-> b.x1, y1 |-> b.y0 + sz.h]
                           /\ rb = [x0 |-> b.x0, y0 |-> b.y0 + sz.h,
                                    x1 |-> b.x1, y1 |-> b.y1]
            /\ (l # Nil /\ nodes[l].Left # Nil) =>
                  Box(nodes[nodes[l].Left].Rect) = r

\* an Insert that split twice, horizontally first, after an earlier Insert
C15_Witness ==
    /\ Len(commits) >= 2
    /\ \E j \in 1..Len(commits) :
          /\ C15_Slack(j).x < C15_Slack(j).y
          /\ nodes[commits[j].node].Left # Nil
          /\ nodes[nodes[commits[j].node].Left].Left # Nil

(***************************************************************************)
(* C16: no run of PackImages panics in Insert: the candidate it is about   *)
(* to commit into is an unused leaf at least as large as the padded size   *)
(* of the chosen sprite, and every left child an Insert recursed into was  *)
(* at least as large as the size requested.                                *)
(***************************************************************************)
C16_NoPanic ==
    /\ result # "panic"
    /\ pc = "insert" =>
          LET n == bestCandidate.Candidate
              b == Box(nodes[n].Rect)
              s == Box(Images[images[bestImage + 1]].Bounds)
          IN  /\ n \in 1..Len(nodes)
              /\ ~nodes[n].Used
              /\ nodes[n].Left = Nil /\ nodes[n].Right = Nil
              /\ b.x1 - b.x0 >= s.x1 - s.x0 + 1
              /\ b.y1 - b.y0 >= s.y1 - s.y0 + 1
    /\ \A j \in 1..Len(commits) :
          LET l == nodes[commits[j].node].Left
          IN  l # Nil =>
                /\ Box(nodes[l].Rect).x1 - Box(nodes[l].Rect).x0 >= C15_Size(j).w
                /\ Box(nodes[l].Rect).y1 - Box(nodes[l].Rect).y0 >= C15_Size(j).h
                /\ nodes[l].Left # Nil =>
                      /\ Dx(nodes[nodes[l].Left].Rect) >= C15_Size(j).w
                      /\ Dy(nodes[nodes[l].Left].Rect) >= C15_Size(j).h

\* an Insert about to be called on a leaf of an already split tree that is
\* larger than the requested size, so that it splits and recurses
C16_Witness ==
    /\ pc = "insert"
    /\ Len(commits) >= 1
    /\ \/ Dx(nodes[bestCandidate.Candidate].Rect)
             > Dx(Images[images[bestImage + 1]].Bounds) + 1
       \/ Dy(nodes[bestCandidate.Candidate].Rect)
             > Dy(Images[images[bestImage + 1]].Bounds) + 1

(***************************************************************************)
(* C17: PackImages terminates without deadlock: every step lowers a        *)
(* non-negative integer measure, every state other than the final one has  *)
(* a step to take (the producer blocked on a full buffer is released by    *)
(* the consumer, the consumer waiting on an empty buffer is released by a  *)
(* send or by the close), the candidate loop moves on to the next sprite   *)
(* only once the channel is closed and the goroutine has ended, every      *)
(* committing round removes exactly one sprite from the working list, and  *)
(* the rounds begun never outnumber the sprites.                           *)
(***************************************************************************)
\* the number of nodes in the subtree of n
RECURSIVE C17_SubSize(_, _)
C17_SubSize(ns, n) ==
    IF ns[n].Left = Nil
    THEN 1
    ELSE 1 + C17_SubSize(ns, ns[n].Left) + C17_SubSize(ns, ns[n].Right)

\* the number of nodes the search has still to visit
RECURSIVE C17_Pending(_, _)
C17_Pending(ns, stack) ==
    IF stack = <<>>
    THEN 0
    ELSE C17_SubSize(ns, Head(stack)) + C17_Pending(ns, Tail(stack))

\* what is left of one search and its draining
C17_SearchLeft ==
    Len(candidates)
      + (CASE g = "start"  -> 2 * C17_SubSize(nodes, 1) + 2
           [] g = "search" -> 2 * C17_Pending(nodes, gStack) + 1
           [] OTHER        -> 0)

\* more than any value of C17_SearchLeft: a tree has at most four more nodes
\* per sprite
C17_SearchMax == 2 * (1 + 4 * Len(Images)) + 2 + ChanCap + 4

\* more than what is left of any round
C17_RoundMax == Len(Images) * C17_SearchMax + 4

C17_Measure ==
    CASE pc = "done"   -> 0
      [] pc = "loop"   -> Len(images) * C17_RoundMax + C17_RoundMax - 1
      [] pc = "for"    -> Len(images) * C17_RoundMax
                            + (Len(images) - i) * C17_SearchMax + 2
      [] pc = "recv"   -> Len(images) * C17_RoundMax
                            + (Len(images) - i - 1) * C17_SearchMax
                            + C17_SearchLeft + 3
      [] pc = "check"  -> Len(images) * C17_RoundMax + 1
      [] pc = "insert" -> Len(images) * C17_RoundMax

\* some step of the main goroutine or of the producer can be taken
C17_CanStep ==
    \/ pc \in {"loop", "for", "check", "insert"}
    \/ pc = "recv" /\ (candidates # <<>> \/ closed)
    \/ g = "start"
    \/ g = "search" /\ Advance(nodes, gStack, gSize).found
                    /\ Len(candidates) < ChanCap
    \/ g = "search" /\ ~Advance(nodes, gStack, gSize).found

C17_Terminates ==
    [][/\ C17_Measure' < C17_Measure
       /\ C17_Measure' >= 0
       /\ pc' # "done" => C17_CanStep'
       /\ (pc = "recv" /\ pc' = "for") => (closed /\ g = "none")
       /\ (pc = "insert" /\ pc' = "loop") => Len(images') = Len(images) - 1
       /\ pc' \notin {"loop", "done"} => Len(commits') + 1 <= Len(Images')
       /\ Len(commits') + Len(images') = Len(Images')]_vars

\* the producer is blocked on a full buffer with a candidate still to send
C17_Witness ==
    /\ pc = "recv"
    /\ g = "search"
    /\ Len(candidates) = ChanCap
    /\ Advance(nodes, gStack, gSize).found
    /\ Len(commits) >= 1

(***************************************************************************)
(* C18: the pair PackImages commits is the first, in iteration order, of   *)
(* the round's (sprite, leaf) pairs with the lowest score: the sprites in  *)
(* working-list order and, for each sprite, the leaves in depth-first      *)
(* order, left child before right child. Every earlier pair has a strictly *)
(* higher score, every later pair a score at least as high.                *)
(***************************************************************************)
\* the leaves below n in depth-first order, left before right
RECURSIVE C18_DFS(_, _)
C18_DFS(ns, n) ==
    IF ns[n].Left = Nil
    THEN <<n>>
    ELSE C18_DFS(ns, ns[n].Left) \o C18_DFS(ns, ns[n].Right)

\* the position of leaf n in the depth-first order of the tree
C18_Pos(n) ==
    CHOOSE p \in 1..Len(C18_DFS(nodes, 1)) : C18_DFS(nodes, 1)[p] = n

\* pair (i1, n1) comes before pair (i2, n2) in iteration order
C18_Before(i1, n1, i2, n2) ==
    i1 < i2 \/ (i1 = i2 /\ C18_Pos(n1) < C18_Pos(n2))

C18_FirstBest ==
    pc = "insert" =>
        /\ bestImage \in 0..(Len(images) - 1)
        /\ bestCandidate.Candidate \in FreeFor(nodes, images[bestImage + 1])
        /\ bestCandidate.Score =
              SlackScore(nodes, bestCandidate.Candidate, images[bestImage + 1])
        /\ \A i2 \in 0..(Len(images) - 1) :
              \A n2 \in FreeFor(nodes, images[i2 + 1]) :
                 /\ SlackScore(nodes, n2, images[i2 + 1]) >= bestCandidate.Score
                 /\ C18_Before(i2, n2, bestImage, bestCandidate.Candidate) =>
                       SlackScore(nodes, n2, images[i2 + 1]) > bestCandidate.Score

\* a commit about to be made where a later leaf ties with the best score
\* for the same sprite
C18_Witness ==
    /\ pc = "insert"
    /\ \E n2 \in FreeFor(nodes, images[bestImage + 1]) :
          /\ C18_Before(bestImage, bestCandidate.Candidate, bestImage, n2)
          /\ SlackScore(nodes, n2, images[bestImage + 1]) = bestCandidate.Score

\* a commit about to be made where a later sprite ties with the best score
C18_WitnessSprite ==
    /\ pc = "insert"
    /\ \E i2 \in (bestImage + 1)..(Len(images) - 1) :
          \E n2 \in FreeFor(nodes, images[i2 + 1]) :
             SlackScore(nodes, n2, images[i2 + 1]) = bestCandidate.Score

(***************************************************************************)
(* C19: the outcome of PackImages is a function of the canvas size and the *)
(* ordered list of sprite sizes alone: under every interleaving of the     *)
(* goroutine with the consuming loop, the commits made so far are a prefix *)
(* of those of the sequential packing of the same input, and at the end    *)
(* the success or failure and every sprite's AtlasPos are those of the     *)
(* sequential packing.                                                     *)
(***************************************************************************)
\* the sprite's size plus the padding
C19_Size(k) == Pt(Dx(Images[k].Bounds) + 1, Dy(Images[k].Bounds) + 1)

\* the unused leaves of ns at least as large as size, in depth-first order
C19_Fitting(ns, size) ==
    SelectSeq(C18_DFS(ns, 1),
              LAMBDA n : /\ ~ns[n].Used
                         /\ Dx(ns[n].Rect) >= size.X
                         /\ Dy(ns[n].Rect) >= size.Y)

\* the slack of leaf n for size
C19_Score(ns, n, size) ==
    Min2(Dx(ns[n].Rect) - size.X, Dy(ns[n].Rect) - size.Y)

\* the round's pairs <<index in list, leaf>> in iteration order, from the
\* sprite at index j on
RECURSIVE C19_Pairs(_, _, _)
C19_Pairs(ns, list, j) ==
    IF j > Len(list)
    THEN <<>>
    ELSE LET f == C19_Fitting(ns, C19_Size(list[j]))
         IN  [p \in 1..Len(f) |-> <<j, f[p]>>] \o C19_Pairs(ns, list, j + 1)

\* the sequential packing: [result, pos, commits]
RECURSIVE C19_Run(_, _, _, _)
C19_Run(ns, list, pos, done) ==
    IF list = <<>>
    THEN [result |-> "ok", pos |-> pos, commits |-> done]
    ELSE LET ps == C19_Pairs(ns, list, 1)
             sc(p) == C19_Score(ns, ps[p][2], C19_Size(list[ps[p][1]]))
         IN  IF ps = <<>>
             THEN [result |-> "fail", pos |-> pos, commits |-> done]
             ELSE LET b == CHOOSE p \in 1..Len(ps) :
                               /\ \A q \in 1..Len(ps) : sc(q) >= sc(p)
                               /\ \A q \in 1..(p - 1) : sc(q) > sc(p)
                      k == list[ps[b][1]]
                      ins == Insert(ns, ps[b][2], C19_Size(k))
                  IN  C19_Run(ins.nodes,
                              [j \in 1..(Len(list) - 1) |->
                                  IF j = ps[b][1] THEN list[Len(list)] ELSE list[j]],
                              [pos EXCEPT ![k] = ins.r.Min],
                              Append(done, <<k, ins.r.Min>>))

\* the sequential packing of this run's input
C19_Ref ==
    C19_Run(<<[Left |-> Nil, Right |-> Nil,
               Rect |-> Rect(1, 1, atlasSize.X, atlasSize.Y), Used |-> FALSE]>>,
            [k \in 1..Len(Images) |-> k],
            [k \in 1..Len(Images) |-> Pt(0, 0)],
            <<>>)

C19_Deterministic ==
    pc \in {"loop", "done"} =>
        /\ Len(commits) <= Len(C19_Ref.commits)
        /\ \A j \in 1..Len(commits) :
              /\ C19_Ref.commits[j][1] = commits[j].img
              /\ C19_Ref.commits[j][2] = Images[commits[j].img].AtlasPos
        /\ pc = "done" =>
              /\ result = C19_Ref.result
              /\ Len(commits) = Len(C19_Ref.commits)
              /\ \A k \in 1..Len(Images) : Images[k].AtlasPos = C19_Ref.pos[k]

\* a finished run of two rounds; the second round's search met several
\* leaves, so that sends and receives could interleave in more than one way
C19_Witness ==
    /\ pc = "done"
    /\ result = "ok"
    /\ Len(commits) = 2
    /\ Len(nodes) >= 5

(***************************************************************************)
(* C20: no step of PackImages changes the length or order of a.Images or   *)
(* any sprite's Path, OrgBounds or trimmed image bounds; a sprite's        *)
(* AtlasPos changes only in the step that places it, every placement       *)
(* writes the AtlasPos of the sprite placed and of no other, no sprite is  *)
(* placed twice, and a sprite not placed keeps the AtlasPos it had at the  *)
(* start, also when PackImages fails.                                      *)
(***************************************************************************)
\* the sprites placed after the step
C20_PlacedNext == {commits'[j].img : j \in 1..Len(commits')}

C20_Frame ==
    [][/\ Len(Images') = Len(Images)
       /\ \A k \in 1..Len(Images) :
             /\ Images'[k].Path = Images[k].Path
             /\ Images'[k].OrgBounds = Images[k].OrgBounds
             /\ Images'[k].Bounds = Images[k].Bounds
             /\ Images'[k].AtlasPos # Images[k].AtlasPos =>
                   /\ k \notin PlacedSet
                   /\ Len(commits') = Len(commits) + 1
                   /\ commits'[Len(commits')].img = k
             /\ (k \in C20_PlacedNext /\ k \notin PlacedSet) =>
                   /\ Images'[k].AtlasPos # Images[k].AtlasPos
                   /\ Images'[k].AtlasPos = commits'[Len(commits')].r.Min
             /\ k \notin C20_PlacedNext => Images'[k].AtlasPos = Pt(0, 0)
       /\ \A j1, j2 \in 1..Len(commits') :
             commits'[j1].img = commits'[j2].img => j1 = j2
       /\ \A j \in 1..Len(commits) : commits'[j] = commits[j]]_vars

\* PackImages has failed after placing the first of two sprites, whose slot
\* in the working list the swap-remove filled with the second
C20_Witness ==
    /\ pc = "done"
    /\ result = "fail"
    /\ Len(Images) = 2
    /\ Len(commits) = 1
    /\ commits[1].img = 1
    /\ images = <<2>>
    /\ Images[2].AtlasPos = Pt(0, 0)
    /\ Images[1].AtlasPos # Pt(0, 0)

====
